---- MODULE Spec2Model ----
(***************************************************************************)
(* A model of the grammar pipeline of compas_quad:                         *)
(*   - examples/99_lizard.py: replay of the unique strings, bucketing by   *)
(*     FeatureKey, the validity filter and the final accounting;           *)
(*   - grammar/features.py: histogram and features_key;                    *)
(*   - grammar/string_generation.py and grammar/markov.py: the string      *)
(*     generators and the equilibrium distribution.                        *)
(* Grammar strings are sequences of one-character strings.                 *)
(***************************************************************************)
EXTENDS Integers, Sequences, FiniteSets, TLC

VARIABLES
    \* ---- examples/99_lizard.py ----
    pc,                        \* position of the script
    unique_strings,            \* set(strings)
    todo,                      \* strings the replay loop has not visited yet
    heap,                      \* mesh objects by reference
    mesh,                      \* the reference bound to the name `mesh`
    lizard,                    \* the Lizard of the current attempt
    tail, head,                \* the position marker of the script
    meshes, successful_strings, failed_strings,
    num_fail_lizard, num_fail_unify,
    featkey_stringmesh,        \* FeatureKey -> (string -> mesh)
    featkey_order,             \* insertion order of the dict's keys
    number_unique_meshes_pre,
    num_fail_smooth, num_fail_manifold, num_fail_boundarychange,
    deletable_featkeys, deletable,
    bucket_i, string_i,        \* positions of the loops
    checked_boundaries,        \* string -> len(mesh.vertices_on_boundaries()) read at the check
    num_fail_duplicated, number_unique_meshes,
    \* ---- grammar/features.py: histogram ----
    hpc,                       \* "start", then "counted"
    data,                      \* the per-vertex index samples
    counts,                    \* the list histogram returns
    \* ---- grammar/features.py: features_key ----
    kpc,                       \* "start", then "keyed"
    features1, features2,      \* two feature vectors
    key1, key2,                \* their FeatureKeys
    \* ---- grammar/markov.py: the distributions a Markov generator samples from ----
    epc,                       \* "start", then "ready"
    e_transition,              \* the p_transition the caller supplies
    e_init,                    \* p_init after the prologue
    e_P,                       \* p_transition after the prologue
    \* ---- grammar/string_generation.py, grammar/markov.py: one generator ----
    call,                      \* the generator function called and its arguments
    gen,                       \* the frame of the generator
    out,                       \* the strings it has yielded
    py_rng,                    \* the state of Python's `random` module
    np_rng,                    \* the state of numpy.random
    run,                       \* 1, or 2 when the same call is run again
    out_first                  \* the strings the first run yielded

pipeVars == <<pc, unique_strings, todo, heap, mesh, lizard, tail, head,
              meshes, successful_strings, failed_strings,
              num_fail_lizard, num_fail_unify,
              featkey_stringmesh, featkey_order, number_unique_meshes_pre,
              num_fail_smooth, num_fail_manifold, num_fail_boundarychange,
              deletable_featkeys, deletable, bucket_i, string_i,
              checked_boundaries, num_fail_duplicated, number_unique_meshes>>

histVars == <<hpc, data, counts>>

keyVars == <<kpc, features1, features2, key1, key2>>

eqVars == <<epc, e_transition, e_init, e_P>>

genVars == <<call, gen, out, py_rng, np_rng, run, out_first>>

vars == <<pipeVars, histVars, keyVars, eqVars, genVars>>

nonPipeVars == <<histVars, keyVars, eqVars, genVars>>
nonHistVars == <<pipeVars, keyVars, eqVars, genVars>>
nonKeyVars == <<pipeVars, histVars, eqVars, genVars>>
nonEqVars == <<pipeVars, histVars, keyVars, genVars>>
nonGenVars == <<pipeVars, histVars, keyVars, eqVars>>

(***************************************************************************)
(* The parts of the state a specification does not run                     *)
(***************************************************************************)
IdlePipeline ==
    /\ pc = "off"
    /\ unique_strings = {}
    /\ todo = {}
    /\ heap = <<>>
    /\ mesh = "none"
    /\ lizard = "none"
    /\ tail = "none"
    /\ head = "none"
    /\ meshes = <<>>
    /\ successful_strings = <<>>
    /\ failed_strings = <<>>
    /\ num_fail_lizard = 0
    /\ num_fail_unify = 0
    /\ featkey_stringmesh = <<>>
    /\ featkey_order = <<>>
    /\ number_unique_meshes_pre = 0
    /\ num_fail_smooth = 0
    /\ num_fail_manifold = 0
    /\ num_fail_boundarychange = 0
    /\ deletable_featkeys = <<>>
    /\ deletable = <<>>
    /\ bucket_i = 0
    /\ string_i = 0
    /\ checked_boundaries = <<>>
    /\ num_fail_duplicated = 0
    /\ number_unique_meshes = 0

IdleHistogram == hpc = "off" /\ data = <<>> /\ counts = <<>>

IdleKey ==
    /\ kpc = "off"
    /\ features1 = <<>>
    /\ features2 = <<>>
    /\ key1 = <<>>
    /\ key2 = <<>>

IdleEquilibrium ==
    /\ epc = "off"
    /\ e_transition = <<>>
    /\ e_init = <<>>
    /\ e_P = <<>>

IdleGenerator ==
    /\ call = <<>>
    /\ gen = <<>>
    /\ out = <<>>
    /\ py_rng = 0
    /\ np_rng = 0
    /\ run = 0
    /\ out_first = <<>>

(***************************************************************************)
(* Bounds                                                                  *)
(***************************************************************************)
MaxStrings == 3        \* most unique strings of a batch
NumFeatKeys == 2       \* distinct FeatureKeys the meshes of a batch may render to
MaxBoundaries == 2     \* most boundary loops a post-processed mesh may have
MaxSamples == 3        \* most per-vertex samples handed to histogram
FeatLen == 2           \* length of the feature vectors handed to features_key
MaxWeight == 4         \* entries of a caller's p_transition are 1..MaxWeight over MaxWeight + 1
RngMod == 5            \* states of a random source; a draw is state / RngMod
MaxSeed == 1           \* seeds are 0..MaxSeed
NumStrings == 2        \* strings (sentences) asked of a randomized generator
MaxLength == 2         \* lengths (characters per word) are 0..MaxLength
MaxWords == 2          \* words per sentence are 0..MaxWords

(***************************************************************************)
(* Python helpers                                                          *)
(***************************************************************************)
\* d[k] = v on a dict
DictSet(d, k, v) == [x \in (DOMAIN d) \cup {k} |-> IF x = k THEN v ELSE d[x]]

\* del d[k] for every k of ks
DictDel(d, ks) == [x \in (DOMAIN d) \ ks |-> d[x]]

EmptyDict == [x \in {} |-> x]

Range(s) == {s[i] : i \in DOMAIN s}

(***************************************************************************)
(* The seed mesh, the mesh collaborator and the Lizard                     *)
(***************************************************************************)
\* A mesh is the log of the edits applied to the one-face seed.
SeedMesh == <<>>

\* the seed is a disc: one boundary loop
num_boundaries_init == 1

\* the boundary edge leaving a corner of the seed
SeedCursor == [tail |-> "v0", head |-> "v1"]

\* the strings the script is given to try
GivenStrings == {<<"a", "t", "a">>, <<"a", "t", "t", "t", "a">>, <<"d">>,
                 <<"a", "t", "t", "t", "a", "d">>}

\* mesh.copy(): a new object with the same content
MeshCopy(h, ref, new) == DictSet(h, new, h[ref])

\* mesh = mesh0.copy(): the reference the attempt works on, and the heap
AliasSeedMesh(h) == [ref |-> "mesh0", heap |-> h]
AttemptMesh(h) == [ref |-> "copy", heap |-> MeshCopy(h, "mesh0", "copy")]

\* Lizard(mesh); lizard.init(tail, head)
LizardInit(ref, t, hd) == [mesh |-> ref, tail |-> t, head |-> hd]

\* one rule: the mesh of the lizard is edited in place and the cursor moves
ApplyRule(st, symbol) ==
    [heap |-> [st.heap EXCEPT ![st.lizard.mesh] = Append(@, symbol)],
     lizard |-> [st.lizard EXCEPT !.tail = st.lizard.head, !.head = st.lizard.tail]]

\* the first k rules of string applied in order
RECURSIVE FromStringToRules(_, _, _)
FromStringToRules(st, string, k) ==
    IF k = 0 THEN st
    ELSE ApplyRule(FromStringToRules(st, string, k - 1), string[k])

(***************************************************************************)
(* examples/99_lizard.py                                                   *)
(***************************************************************************)
InitPipeline ==
    /\ pc = "replay"
    /\ unique_strings \in {S \in SUBSET GivenStrings : Cardinality(S) \in 1..MaxStrings}
    /\ todo = unique_strings
    /\ heap = [r \in {"mesh0"} |-> SeedMesh]
    /\ mesh = "none"
    /\ lizard = [mesh |-> "none", tail |-> "none", head |-> "none"]
    /\ tail = SeedCursor.tail
    /\ head = SeedCursor.head
    /\ meshes = <<>>
    /\ successful_strings = <<>>
    /\ failed_strings = <<>>
    /\ num_fail_lizard = 0
    /\ num_fail_unify = 0
    /\ featkey_stringmesh = EmptyDict
    /\ featkey_order = <<>>
    /\ number_unique_meshes_pre = 0
    /\ num_fail_smooth = 0
    /\ num_fail_manifold = 0
    /\ num_fail_boundarychange = 0
    /\ deletable_featkeys = <<>>
    /\ deletable = <<>>
    /\ bucket_i = 1
    /\ string_i = 1
    /\ checked_boundaries = EmptyDict
    /\ num_fail_duplicated = 0
    /\ number_unique_meshes = 0

postVars == <<featkey_stringmesh, featkey_order, number_unique_meshes_pre,
              num_fail_smooth, num_fail_manifold, num_fail_boundarychange,
              deletable_featkeys, deletable, bucket_i, string_i,
              checked_boundaries, num_fail_duplicated, number_unique_meshes>>

\* The bookkeeping of the replay loop: bk holds meshes, successful_strings,
\* failed_strings, num_fail_lizard and num_fail_unify.
\* except around from_string_to_rules: the string is recorded, then `continue`
AfterLizardFail(bk, string) ==
    [bk EXCEPT !.failed_strings = Append(@, string),
               !.num_fail_lizard = @ + 1]

\* the tail of the loop body: the mesh and its string are kept
AfterSuccess(bk, string, m) ==
    [bk EXCEPT !.meshes = Append(@, m),
               !.successful_strings = Append(@, string)]

\* except around unify_cycles: the string is recorded, then `continue`
AfterUnifyFailNoContinue(bk, string, m) ==
    AfterSuccess([bk EXCEPT !.failed_strings = Append(@, string),
                            !.num_fail_unify = @ + 1], string, m)
AfterUnifyFail(bk, string, m) ==
    [bk EXCEPT !.failed_strings = Append(@, string),
               !.num_fail_unify = @ + 1]

\* One iteration of the replay loop.  k rules of the string are applied; the
\* rule after them raises when k < Len(string); unify_cycles raises or not.
Replay ==
    /\ pc = "replay"
    /\ \E string \in todo : \E k \in 0..Len(string), unify_ok \in BOOLEAN :
        LET start == AttemptMesh(heap)
            lz == LizardInit(start.ref, tail, head)
            after == FromStringToRules([heap |-> start.heap, lizard |-> lz], string, k)
            bk == [meshes |-> meshes, successful_strings |-> successful_strings,
                   failed_strings |-> failed_strings,
                   num_fail_lizard |-> num_fail_lizard, num_fail_unify |-> num_fail_unify]
            m == after.heap[start.ref]
            bk2 == IF k < Len(string) THEN AfterLizardFail(bk, string)
                   ELSE IF ~unify_ok THEN AfterUnifyFail(bk, string, m)
                   ELSE AfterSuccess(bk, string, m)
        IN  /\ todo' = todo \ {string}
            /\ mesh' = start.ref
            /\ heap' = after.heap
            /\ lizard' = after.lizard
            /\ meshes' = bk2.meshes
            /\ successful_strings' = bk2.successful_strings
            /\ failed_strings' = bk2.failed_strings
            /\ num_fail_lizard' = bk2.num_fail_lizard
            /\ num_fail_unify' = bk2.num_fail_unify
    /\ pc' = IF todo' = {} THEN "bucket" ELSE "replay"
    /\ UNCHANGED <<unique_strings, tail, head>>
    /\ UNCHANGED postVars
    /\ UNCHANGED nonPipeVars

num_lizard_strings == Len(successful_strings)
number_successful_strings == Len(successful_strings)
number_failed_strings == Len(failed_strings)
number_unique_strings == Cardinality(unique_strings)

\* the FeatureKeys a mesh may render to: features_key(mesh_features_topology(mesh))
FeatKeys == 1..NumFeatKeys

replayVars == <<unique_strings, todo, heap, mesh, lizard, tail, head,
                meshes, successful_strings, failed_strings,
                num_fail_lizard, num_fail_unify>>

\* One iteration of the loop that files every successful string under its
\* FeatureKey; after the last one the number of buckets is recorded.
Bucket ==
    /\ pc = "bucket"
    /\ IF string_i <= Len(successful_strings)
       THEN \E featkey \in FeatKeys :
              LET string == successful_strings[string_i]
                  old == IF featkey \in DOMAIN featkey_stringmesh
                         THEN featkey_stringmesh[featkey] ELSE EmptyDict
              IN  /\ featkey_stringmesh' =
                        DictSet(featkey_stringmesh, featkey, DictSet(old, string, meshes[string_i]))
                  /\ featkey_order' = IF featkey \in DOMAIN featkey_stringmesh
                                      THEN featkey_order ELSE Append(featkey_order, featkey)
                  /\ string_i' = string_i + 1
                  /\ UNCHANGED <<pc, number_unique_meshes_pre>>
       ELSE /\ number_unique_meshes_pre' = Cardinality(DOMAIN featkey_stringmesh)
            /\ pc' = "filter"
            /\ string_i' = 1
            /\ UNCHANGED <<featkey_stringmesh, featkey_order>>
    /\ UNCHANGED replayVars
    /\ UNCHANGED nonPipeVars
    /\ UNCHANGED <<num_fail_smooth, num_fail_manifold, num_fail_boundarychange,
                   deletable_featkeys, deletable, bucket_i,
                   checked_boundaries, num_fail_duplicated, number_unique_meshes>>

\* the strings of a bucket in the order the dict holds them
BucketStrings(featkey) ==
    LET InBucket(s) == s \in DOMAIN featkey_stringmesh[featkey]
    IN  SelectSeq(successful_strings, InBucket)

\* the check that discards meshes with internal holes
BoundaryChanged(n) == n > num_boundaries_init

\* The inner loop without the `continue` of the except branch: a mesh that
\* fails the smoothing goes on to the manifold check.
FilterStringNoContinue ==
    /\ pc = "filter"
    /\ bucket_i <= Len(featkey_order)
    /\ string_i <= Len(BucketStrings(featkey_order[bucket_i]))
    /\ LET featkey == featkey_order[bucket_i]
           string == BucketStrings(featkey)[string_i]
       IN  \E smooth_ok \in BOOLEAN, is_manifold \in BOOLEAN, boundaries \in 0..MaxBoundaries :
             /\ num_fail_smooth' = num_fail_smooth + (IF smooth_ok THEN 0 ELSE 1)
             /\ IF ~is_manifold
                THEN /\ num_fail_manifold' = num_fail_manifold + 1
                     /\ deletable' = Append(IF smooth_ok THEN deletable
                                            ELSE Append(deletable, string), string)
                     /\ UNCHANGED <<num_fail_boundarychange, checked_boundaries,
                                    featkey_stringmesh>>
                ELSE IF BoundaryChanged(boundaries)
                THEN /\ num_fail_boundarychange' = num_fail_boundarychange + 1
                     /\ deletable' = Append(IF smooth_ok THEN deletable
                                            ELSE Append(deletable, string), string)
                     /\ checked_boundaries' = DictSet(checked_boundaries, string, boundaries)
                     /\ UNCHANGED <<num_fail_manifold, featkey_stringmesh>>
                ELSE /\ featkey_stringmesh' =
                           [featkey_stringmesh EXCEPT ![featkey][string] = Append(@, "dense")]
                     /\ deletable' = IF smooth_ok THEN deletable
                                     ELSE Append(deletable, string)
                     /\ checked_boundaries' = DictSet(checked_boundaries, string, boundaries)
                     /\ UNCHANGED <<num_fail_manifold, num_fail_boundarychange>>
             /\ string_i' = string_i + 1
    /\ UNCHANGED replayVars
    /\ UNCHANGED nonPipeVars
    /\ UNCHANGED <<pc, featkey_order, number_unique_meshes_pre, deletable_featkeys,
                   bucket_i, num_fail_duplicated, number_unique_meshes>>

\* One iteration of the inner loop of the post-processing: smoothing, then
\* the manifold check, then the boundary check, stopping at the first failure.
FilterString ==
    /\ pc = "filter"
    /\ bucket_i <= Len(featkey_order)
    /\ string_i <= Len(BucketStrings(featkey_order[bucket_i]))
    /\ LET featkey == featkey_order[bucket_i]
           string == BucketStrings(featkey)[string_i]
       IN  \E smooth_ok \in BOOLEAN, is_manifold \in BOOLEAN, boundaries \in 0..MaxBoundaries :
             /\ IF ~smooth_ok
                THEN /\ num_fail_smooth' = num_fail_smooth + 1
                     /\ deletable' = Append(deletable, string)
                     /\ UNCHANGED <<num_fail_manifold, num_fail_boundarychange,
                                    checked_boundaries, featkey_stringmesh>>
                ELSE IF ~is_manifold
                THEN /\ num_fail_manifold' = num_fail_manifold + 1
                     /\ deletable' = Append(deletable, string)
                     /\ UNCHANGED <<num_fail_smooth, num_fail_boundarychange,
                                    checked_boundaries, featkey_stringmesh>>
                ELSE IF BoundaryChanged(boundaries)
                THEN /\ num_fail_boundarychange' = num_fail_boundarychange + 1
                     /\ deletable' = Append(deletable, string)
                     /\ checked_boundaries' = DictSet(checked_boundaries, string, boundaries)
                     /\ UNCHANGED <<num_fail_smooth, num_fail_manifold, featkey_stringmesh>>
                ELSE /\ featkey_stringmesh' =
                           [featkey_stringmesh EXCEPT ![featkey][string] = Append(@, "dense")]
                     /\ checked_boundaries' = DictSet(checked_boundaries, string, boundaries)
                     /\ UNCHANGED <<num_fail_smooth, num_fail_manifold,
                                    num_fail_boundarychange, deletable>>
             /\ string_i' = string_i + 1
    /\ UNCHANGED replayVars
    /\ UNCHANGED nonPipeVars
    /\ UNCHANGED <<pc, featkey_order, number_unique_meshes_pre, deletable_featkeys,
                   bucket_i, num_fail_duplicated, number_unique_meshes>>

\* The end of one iteration of the outer loop: the failed entries leave the
\* bucket and an empty bucket is marked for deletion.
EndBucket ==
    /\ pc = "filter"
    /\ bucket_i <= Len(featkey_order)
    /\ string_i > Len(BucketStrings(featkey_order[bucket_i]))
    /\ LET featkey == featkey_order[bucket_i]
           stringmesh == DictDel(featkey_stringmesh[featkey], Range(deletable))
       IN  /\ featkey_stringmesh' = [featkey_stringmesh EXCEPT ![featkey] = stringmesh]
           /\ deletable_featkeys' = IF Cardinality(DOMAIN stringmesh) < 1
                                    THEN Append(deletable_featkeys, featkey)
                                    ELSE deletable_featkeys
    /\ deletable' = <<>>
    /\ bucket_i' = bucket_i + 1
    /\ string_i' = 1
    /\ UNCHANGED replayVars
    /\ UNCHANGED nonPipeVars
    /\ UNCHANGED <<pc, featkey_order, number_unique_meshes_pre,
                   num_fail_smooth, num_fail_manifold, num_fail_boundarychange,
                   checked_boundaries, num_fail_duplicated, number_unique_meshes>>

\* After the loops: the duplicates are counted and the empty buckets deleted.
Finish ==
    /\ pc = "filter"
    /\ bucket_i > Len(featkey_order)
    /\ num_fail_duplicated' = num_lizard_strings - number_unique_meshes_pre
    /\ featkey_stringmesh' = DictDel(featkey_stringmesh, Range(deletable_featkeys))
    /\ number_unique_meshes' = Cardinality(DOMAIN featkey_stringmesh')
    /\ pc' = "done"
    /\ UNCHANGED replayVars
    /\ UNCHANGED nonPipeVars
    /\ UNCHANGED <<featkey_order, number_unique_meshes_pre,
                   num_fail_smooth, num_fail_manifold, num_fail_boundarychange,
                   deletable_featkeys, deletable, bucket_i, string_i,
                   checked_boundaries>>

(***************************************************************************)
(* Claims about examples/99_lizard.py                                      *)
(***************************************************************************)
nums_fail == num_fail_lizard + num_fail_unify + num_fail_duplicated
             + num_fail_smooth + num_fail_manifold + num_fail_boundarychange

NoRepeat(s) == Cardinality(Range(s)) = Len(s)

\* C1: at the end of every batch the failure counts and the number of buckets
\* left add up to the number of unique strings.
C1_AccountingIdentity ==
    pc = "done" => nums_fail + number_unique_meshes = number_unique_strings

\* C2: every string the replay loop has visited is in exactly one of
\* successful_strings and failed_strings, once; one mesh is kept per
\* successful string and none for a failed one; the two failure counters add
\* up to the failed strings; after the loop the two lists cover unique_strings.
C2_ReplayPartition ==
    /\ Len(meshes) = Len(successful_strings)
    /\ num_fail_lizard + num_fail_unify = Len(failed_strings)
    /\ NoRepeat(successful_strings)
    /\ NoRepeat(failed_strings)
    /\ Range(successful_strings) \cap Range(failed_strings) = {}
    /\ Range(successful_strings) \cup Range(failed_strings) = unique_strings \ todo
    /\ pc # "replay" =>
          number_successful_strings + number_failed_strings = number_unique_strings

\* the loop is over with a replay failure, a unification failure and a success
C2_Witness ==
    /\ pc = "bucket"
    /\ num_fail_lizard >= 1
    /\ num_fail_unify >= 1
    /\ Len(successful_strings) >= 1

\* C9: the seed mesh and the script's position marker are the same before
\* every attempt of the replay loop, whatever the attempts before it did to
\* their own meshes.
C9_SeedUnchanged ==
    /\ heap["mesh0"] = SeedMesh
    /\ tail = SeedCursor.tail
    /\ head = SeedCursor.head

\* an attempt succeeded, and the last attempt failed part-way: its own mesh
\* holds some edits of its string but not all
C9_Witness ==
    /\ mesh # "none"
    /\ num_fail_lizard >= 1
    /\ Len(meshes) >= 1
    /\ heap[mesh] # SeedMesh
    /\ heap[mesh] \notin unique_strings
    /\ lizard.tail # tail

\* a string that is still in its bucket and not marked for deletion
Survives(string) ==
    /\ string \notin Range(deletable)
    /\ \E featkey \in DOMAIN featkey_stringmesh : string \in DOMAIN featkey_stringmesh[featkey]

\* C10: every mesh whose boundary-loop count differs from the seed's is
\* rejected and counted in num_fail_boundarychange.
C10_BoundaryCountMustEqual ==
    /\ \A string \in DOMAIN checked_boundaries :
          checked_boundaries[string] # num_boundaries_init => ~Survives(string)
    /\ num_fail_boundarychange =
          Cardinality({string \in DOMAIN checked_boundaries :
                          checked_boundaries[string] # num_boundaries_init})

\* the successful strings the filter has taken, or is about to take, out of
\* their bucket
Removed == {string \in Range(successful_strings) : ~Survives(string)}

\* the string the inner loop is at
FilterCurrent == BucketStrings(featkey_order[bucket_i])[string_i]

\* a step of the inner loop: one string goes through the checks
FilterStep == pc = "filter" /\ string_i' = string_i + 1

\* a step that ends a bucket
EndBucketStep == pc = "filter" /\ bucket_i' = bucket_i + 1

\* the string keeps its place and no counter moves
FilterKeeps ==
    /\ UNCHANGED <<num_fail_smooth, num_fail_manifold, num_fail_boundarychange, deletable>>
    /\ FilterCurrent \in DOMAIN featkey_stringmesh'[featkey_order[bucket_i]]
    /\ FilterCurrent \in DOMAIN checked_boundaries'

\* the string is marked for removal once and exactly one counter moves by
\* one; the boundary count is looked at only by the third check
FilterRejects ==
    /\ deletable' = Append(deletable, FilterCurrent)
    /\ \/ /\ num_fail_smooth' = num_fail_smooth + 1
          /\ UNCHANGED <<num_fail_manifold, num_fail_boundarychange, checked_boundaries>>
       \/ /\ num_fail_manifold' = num_fail_manifold + 1
          /\ UNCHANGED <<num_fail_smooth, num_fail_boundarychange, checked_boundaries>>
       \/ /\ num_fail_boundarychange' = num_fail_boundarychange + 1
          /\ UNCHANGED <<num_fail_smooth, num_fail_manifold>>
          /\ FilterCurrent \in DOMAIN checked_boundaries'

\* C11: the filter stops at the first check a string fails: a string that
\* goes through it either stays in its bucket with the three counters
\* untouched, or moves exactly one of them by one and leaves its bucket when
\* the bucket ends; the three counters add up to the strings removed.
C11_FilterShortCircuit ==
    /\ [](pc \in {"filter", "done"} =>
            num_fail_smooth + num_fail_manifold + num_fail_boundarychange
                = Cardinality(Removed))
    /\ [][FilterStep => (FilterKeeps \/ FilterRejects)]_vars
    /\ [][EndBucketStep =>
            DOMAIN featkey_stringmesh'[featkey_order[bucket_i]]
                = DOMAIN featkey_stringmesh[featkey_order[bucket_i]] \ Range(deletable)]_vars

\* the filter is over: a string failed the smoothing, another the boundary
\* check, and a third one is still in its bucket
C11_Witness ==
    /\ pc = "done"
    /\ num_fail_smooth >= 1
    /\ num_fail_boundarychange >= 1
    /\ \E string \in Range(successful_strings) : Survives(string)

Init == InitPipeline /\ IdleHistogram /\ IdleKey /\ IdleEquilibrium /\ IdleGenerator

Next == Replay \/ Bucket \/ FilterString \/ EndBucket \/ Finish

Spec == Init /\ [][Next]_vars

(***************************************************************************)
(* grammar/features.py: histogram                                          *)
(***************************************************************************)
\* The bin centres -1.0, -0.75, ..., 1.0.  Floats are counted in eighths.
TOPO_INDICES == <<-8, -6, -4, -2, 0, 2, 4, 6, 8>>

\* The samples a mesh may report: numbers n/d, integers (d = 1) among them.
\* -5/4 = -10/8 and 3/2 = 6/4 lie outside [-1, 1]; 1/8 and 3/8 lie between two bin centres.
Samples == {[n |-> -5, d |-> 4], [n |-> -10, d |-> 8], [n |-> -1, d |-> 1],
            [n |-> 0, d |-> 1], [n |-> 1, d |-> 8], [n |-> 3, d |-> 8],
            [n |-> 1, d |-> 4], [n |-> 1, d |-> 1], [n |-> 3, d |-> 2], [n |-> 6, d |-> 4]}

\* float(d), in eighths
Float(x) == (x.n * 8) \div x.d

\* Counter(float(d) for d in data): value -> number of occurrences
Counter(xs) ==
    [v \in {Float(xs[i]) : i \in DOMAIN xs} |->
        Cardinality({i \in DOMAIN xs : Float(xs[i]) = v})]

\* counter.get(topo_index) or 0
CounterGet(counter, v) == IF v \in DOMAIN counter THEN counter[v] ELSE 0

\* count += 1 for a key outside the bins
OutlierIncrement(counter, key) == 1

\* the loop over the keys of S, a set of keys outside the bins
RECURSIVE CountOutliers(_, _)
CountOutliers(S, counter) ==
    IF S = {} THEN 0
    ELSE LET k == CHOOSE x \in S : TRUE
         IN  OutlierIncrement(counter, k) + CountOutliers(S \ {k}, counter)

histogram(xs, bins, include_outliers) ==
    LET counter == Counter(xs)
        inBins == [i \in DOMAIN bins |-> CounterGet(counter, bins[i])]
        outside == (DOMAIN counter) \ Range(bins)
        count_low == CountOutliers({k \in outside : k < bins[1]}, counter)
        count_high == CountOutliers({k \in outside : k > bins[Len(bins)]}, counter)
    IN  IF include_outliers
        THEN <<count_low>> \o inBins \o <<count_high>>
        ELSE inBins

\* mesh_number_vertices_per_topo_index
mesh_number_vertices_per_topo_index(xs) == histogram(xs, TOPO_INDICES, TRUE)

RECURSIVE SeqsUpTo(_, _)
SeqsUpTo(S, n) ==
    IF n = 0 THEN {<<>>}
    ELSE LET shorter == SeqsUpTo(S, n - 1)
         IN  shorter \cup {Append(q, x) : q \in shorter, x \in S}

InitHistogram ==
    /\ IdlePipeline /\ IdleKey /\ IdleEquilibrium /\ IdleGenerator
    /\ hpc = "start"
    /\ data \in SeqsUpTo(Samples, MaxSamples)
    /\ counts = <<>>

Histogram ==
    /\ hpc = "start"
    /\ counts' = mesh_number_vertices_per_topo_index(data)
    /\ hpc' = "counted"
    /\ UNCHANGED data
    /\ UNCHANGED nonHistVars

SpecHistogram == InitHistogram /\ [][Histogram]_vars

RECURSIVE SumSeq(_)
SumSeq(q) == IF q = <<>> THEN 0 ELSE Head(q) + SumSeq(Tail(q))

\* C3: the bin counts plus the two overflow counts add up to the number of
\* samples.
C3_HistogramConservation ==
    hpc = "counted" => SumSeq(counts) = Len(data)

(***************************************************************************)
(* grammar/features.py: features_key                                       *)
(***************************************************************************)
DigitChars == <<"0", "1", "2", "3", "4", "5", "6", "7", "8", "9">>

\* "{0}".format(int(x)) of a count: its decimal digits
RECURSIVE Decimal(_)
Decimal(x) ==
    IF x < 10 THEN <<DigitChars[x + 1]>>
    ELSE Decimal(x \div 10) \o <<DigitChars[(x % 10) + 1]>>

\* formatter = lambda x: "{0},".format(int(x))
FormatterNoSeparator(x) == Decimal(x)
Formatter(x) == Decimal(x) \o <<",">>

\* "".join(formatter(f) for f in features)
RECURSIVE JoinFormatted(_)
JoinFormatted(features) ==
    IF features = <<>> THEN <<>>
    ELSE Formatter(Head(features)) \o JoinFormatted(Tail(features))

\* s[:-1]
DropLast(q) == IF q = <<>> THEN <<>> ELSE SubSeq(q, 1, Len(q) - 1)

\* features_key(features, precision="d")
features_key(features) == DropLast(JoinFormatted(features))

\* the counts a feature may hold: one and two digits, sharing digits
CountValues == {0, 1, 2, 10, 11, 12, 21}

InitKey ==
    /\ IdlePipeline /\ IdleHistogram /\ IdleEquilibrium /\ IdleGenerator
    /\ kpc = "start"
    /\ features1 \in [1..FeatLen -> CountValues]
    /\ features2 \in [1..FeatLen -> CountValues]
    /\ key1 = <<>>
    /\ key2 = <<>>

FeaturesKey ==
    /\ kpc = "start"
    /\ key1' = features_key(features1)
    /\ key2' = features_key(features2)
    /\ kpc' = "keyed"
    /\ UNCHANGED <<features1, features2>>
    /\ UNCHANGED nonKeyVars

SpecFeaturesKey == InitKey /\ [][FeaturesKey]_vars

\* C7: two feature vectors of the same length render to the same FeatureKey
\* exactly when they are equal.
C7_FeaturesKeyInjective ==
    kpc = "keyed" => ((key1 = key2) <=> (features1 = features2))

\* two vectors that differ in one element only, a one-digit count against a
\* two-digit count starting with the same digit, have been rendered
C7_Witness ==
    /\ kpc = "keyed"
    /\ Cardinality({i \in 1..FeatLen : features1[i] # features2[i]}) = 1
    /\ \E i \in 1..FeatLen : features1[i] = 1 /\ features2[i] = 12
    /\ key1 # key2

(***************************************************************************)
(* grammar/markov.py: equilibrium_distribution and normalize_rows          *)
(* A vector of probabilities is [num, den]: the numbers num[i] / den.      *)
(* A matrix is [num, den] with num a sequence of rows; after               *)
(* normalize_rows it is a sequence of vectors, one per row.                *)
(***************************************************************************)
Dot(u, v) == SumSeq([i \in DOMAIN u |-> u[i] * v[i]])

\* A = append(p_transition.T - eye(n), ones(n)), times den: its rows
EquilibriumA(p) ==
    LET n == Len(p.num)
    IN  [r \in 1..(n + 1) |->
            IF r <= n
            THEN [c \in 1..n |-> p.num[c][r] - (IF r = c THEN p.den ELSE 0)]
            ELSE [c \in 1..n |-> p.den]]

\* b = [0] * n + [1], times den
EquilibriumB(p) ==
    LET n == Len(p.num) IN [r \in 1..(n + 1) |-> IF r <= n THEN 0 ELSE p.den]

Column(A, c) == [r \in DOMAIN A |-> A[r][c]]

\* np.linalg.solve(a, b) of a system of two equations, by Cramer's rule
Solve2(a, b) ==
    [num |-> <<b[1] * a[2][2] - a[1][2] * b[2], a[1][1] * b[2] - b[1] * a[2][1]>>,
     den |-> a[1][1] * a[2][2] - a[1][2] * a[2][1]]

\* equilibrium_distribution(p_transition) of a chain of two states:
\* solve(A.T.dot(A), A.T.dot(b))
equilibrium_distribution(p) ==
    LET A == EquilibriumA(p)
        b == EquilibriumB(p)
        n == Len(p.num)
        AtA == [i \in 1..n |-> [j \in 1..n |-> Dot(Column(A, i), Column(A, j))]]
        Atb == [i \in 1..n |-> Dot(Column(A, i), b)]
    IN  Solve2(AtA, Atb)

\* one row divided by its sum; den = 0 stands for a row of nan
NormalizeRow(num) ==
    LET t == SumSeq(num)
    IN  IF t >= 0 THEN [num |-> num, den |-> t]
        ELSE [num |-> [i \in DOMAIN num |-> 0 - num[i]], den |-> 0 - t]

\* normalize_rows(p_init).ravel()
normalize_vector(v) == NormalizeRow(v.num)

\* normalize_rows(p_transition)
normalize_rows(p) == [r \in DOMAIN p.num |-> NormalizeRow(p.num[r])]

\* The prologue the three Markov generators share: p_init is the equilibrium
\* of the caller's p_transition when None is given, then both are normalized.
NoVector == [num |-> <<>>, den |-> 0]     \* None given as p_init
IsNoVector(v) == v.num = <<>> /\ v.den = 0

PInit(p_init, p_transition) ==
    IF IsNoVector(p_init)
    THEN normalize_vector(equilibrium_distribution(p_transition))
    ELSE normalize_vector(p_init)

MarkovPrologue(p_init, p_transition) ==
    [p_init |-> PInit(p_init, p_transition),
     p_transition |-> normalize_rows(p_transition)]

InitEquilibrium ==
    /\ IdlePipeline /\ IdleHistogram /\ IdleKey /\ IdleGenerator
    /\ epc = "start"
    /\ \E a, b, c, d \in 1..MaxWeight :
          e_transition = [num |-> <<<<a, b>>, <<c, d>>>>, den |-> MaxWeight + 1]
    /\ e_init = <<>>
    /\ e_P = <<>>

\* string_generation_markov(..., p_init=None, ...) up to its loop
Equilibrate ==
    /\ epc = "start"
    /\ LET pro == MarkovPrologue(NoVector, e_transition)
       IN  /\ e_init' = pro.p_init
           /\ e_P' = pro.p_transition
    /\ epc' = "ready"
    /\ UNCHANGED e_transition
    /\ UNCHANGED nonEqVars

SpecEquilibrium == InitEquilibrium /\ [][Equilibrate]_vars

\* the product of the denominators of the rows of P other than row i
RECURSIVE DenProduct(_, _, _)
DenProduct(P, i, k) ==
    IF k = 0 THEN 1
    ELSE (IF k = i THEN 1 ELSE P[k].den) * DenProduct(P, i, k - 1)

\* pi * P = pi, over the common denominator of the rows of P
IsStationary(pi, P) ==
    \A j \in DOMAIN pi.num :
        SumSeq([i \in DOMAIN pi.num |-> pi.num[i] * P[i].num[j] * DenProduct(P, i, Len(P))])
            = pi.num[j] * DenProduct(P, 0, Len(P))

\* sum(pi) = 1 with every entry a probability
IsDistribution(pi) ==
    /\ pi.den > 0
    /\ SumSeq(pi.num) = pi.den

RowsSumToOne(p) == \A r \in DOMAIN p.num : SumSeq(p.num[r]) = p.den

\* C8: with p_init = None the initial distribution is the stationary
\* distribution of the normalized transition matrix, for every matrix of
\* positive entries.
C8_InitIsStationary ==
    epc = "ready" => IsDistribution(e_init) /\ IsStationary(e_init, e_P)

(***************************************************************************)
(* The two process-wide random sources                                     *)
(* A source is a state in 0..RngMod-1; the uniform draw it gives is        *)
(* state / RngMod, and drawing advances the state.                         *)
(***************************************************************************)
RngStates == 0..(RngMod - 1)

Advance(s) == (s + 1) % RngMod

\* the state seed(n) leaves for an int n
SeedState(seed) == seed % RngMod

\* None given as a seed
IsNone(seed) == seed < 0

\* random.seed(seed) and np.random.seed(seed): an int fixes the state, None
\* takes it from the system's entropy
Reseed(seed, entropy) == IF IsNone(seed) THEN entropy ELSE SeedState(seed)

\* x < n / d and x > n / d for the draw x = s / RngMod
DrawLess(s, n, d) == s * d < n * RngMod
DrawGreater(s, n, d) == s * d > n * RngMod

Min(a, b) == IF a < b THEN a ELSE b

\* sum(ratios[:i])
Cum(num, i) == SumSeq(SubSeq(num, 1, Min(i, Len(num))))

(***************************************************************************)
(* grammar/string_generation.py                                            *)
(***************************************************************************)
\* itertools.product(characters, repeat=length):
\*   result = [[]]; for pool in pools: result = [x + [y] for x in result for y in pool]
ExtendReversed(result, pool) ==
    [k \in 1..(Len(result) * Len(pool)) |->
        Append(result[((k - 1) % Len(result)) + 1], pool[((k - 1) \div Len(result)) + 1])]
Extend(result, pool) ==
    [k \in 1..(Len(result) * Len(pool)) |->
        Append(result[((k - 1) \div Len(pool)) + 1], pool[((k - 1) % Len(pool)) + 1])]

RECURSIVE Product(_, _)
Product(pool, repeat) ==
    IF repeat = 0 THEN << <<>> >>
    ELSE Extend(Product(pool, repeat - 1), pool)

\* ratios, or the uniform ratios when none are given
NoRatios == [num |-> <<>>, den |-> 1]
EffectiveRatios(characters, ratios) ==
    IF ratios.num = <<>>
    THEN [num |-> [i \in 1..Len(characters) |-> 1], den |-> Len(characters)]
    ELSE ratios

\* the inner loop of string_generation_random: what one draw x appends
RandomSymbol(characters, ratios, x) ==
    LET hits == {i \in 1..Len(characters) : DrawLess(x, Cum(ratios.num, i), ratios.den)}
    IN  IF hits = {} THEN <<>>
        ELSE <<characters[CHOOSE i \in hits : \A j \in hits : i <= j]>>

\* one string of string_generation_random: `length` draws from s on
RECURSIVE RandomString(_, _, _, _, _)
RandomString(characters, ratios, length, string, s) ==
    IF length = 0 THEN [string |-> string, rng |-> s]
    ELSE RandomString(characters, ratios, length - 1,
                      string \o RandomSymbol(characters, ratios, s), Advance(s))

\* one string of string_generation_structured: positions i..length-1
RECURSIVE StructuredString(_, _, _, _, _)
StructuredString(i, length, string, polyedge_length, s) ==
    IF i >= length THEN [string |-> string, rng |-> s]
    ELSE IF i = length - 1 /\ polyedge_length # 0
    THEN StructuredString(i + 1, length, Append(string, "a"), 0, s)
    ELSE IF polyedge_length = 0
    THEN IF DrawLess(s, 33, 100)
         THEN StructuredString(i + 1, length, Append(string, "t"), 0, Advance(s))
         ELSE IF DrawLess(s, 67, 100)
         THEN StructuredString(i + 1, length, Append(string, "p"), 0, Advance(s))
         ELSE StructuredString(i + 1, length, Append(string, "a"), 1, Advance(s))
    ELSE IF polyedge_length = 1
    THEN IF DrawLess(s, 50, 100)
         THEN StructuredString(i + 1, length, Append(string, "t"), 2, Advance(s))
         ELSE StructuredString(i + 1, length, Append(string, "p"), 1, Advance(s))
    ELSE IF DrawLess(s, 40, 100)
         THEN StructuredString(i + 1, length, Append(string, "t"), polyedge_length + 1, Advance(s))
         ELSE IF DrawLess(s, 80, 100)
         THEN StructuredString(i + 1, length, Append(string, "p"), polyedge_length, Advance(s))
         ELSE StructuredString(i + 1, length, Append(string, "a"), 0, Advance(s))

(***************************************************************************)
(* grammar/markov.py: sampling                                             *)
(* States are 0-based as in the code; stop_state None is -1.               *)
(***************************************************************************)
\* the pvals multinomial accepts
ValidPvals(p) == p.den > 0 /\ \A i \in DOMAIN p.num : p.num[i] >= 0

\* list(multinomial.rvs(1, p)).index(1) for the draw x
Multinomial(p, x) ==
    (CHOOSE i \in DOMAIN p.num :
        /\ DrawLess(x, Cum(p.num, i), p.den)
        /\ \A j \in 1..(i - 1) : ~DrawLess(x, Cum(p.num, j), p.den)) - 1

\* the loop of markov_sequence
RECURSIVE MarkovLoop(_, _, _, _, _)
MarkovLoop(states, p_transition, remaining, stop_state, s) ==
    IF remaining <= 0 THEN [states |-> states, rng |-> s, raised |-> FALSE]
    ELSE IF states[Len(states)] + 1 \notin DOMAIN p_transition
    THEN [states |-> states, rng |-> s, raised |-> TRUE]
    ELSE LET new_state == Multinomial(p_transition[states[Len(states)] + 1], s)
         IN  IF new_state = stop_state
             THEN [states |-> states, rng |-> Advance(s), raised |-> FALSE]
             ELSE MarkovLoop(Append(states, new_state), p_transition,
                             remaining - 1, stop_state, Advance(s))

markov_sequence(p_init, p_transition, sequence_length, stop_state, s) ==
    IF ~ValidPvals(p_init) \/ \E r \in DOMAIN p_transition : ~ValidPvals(p_transition[r])
    THEN [states |-> <<>>, rng |-> s, raised |-> TRUE]
    ELSE LET initial_state == Multinomial(p_init, s)
         IN  IF initial_state = stop_state
             THEN [states |-> <<>>, rng |-> Advance(s), raised |-> FALSE]
             ELSE MarkovLoop(<<initial_state>>, p_transition,
                             sequence_length - 1, stop_state, Advance(s))

\* rules = {i: rule for i, rule in enumerate(characters)}
RulesFromFixedAlphabet(characters) == [i \in 0..2 |-> <<"a", "t", "p">>[i + 1]]
Rules(characters) == [i \in 0..(Len(characters) - 1) |-> characters[i + 1]]

\* a state with no rule makes sequence_to_grammar_string raise KeyError
HasRules(sequence, rules) == \A k \in DOMAIN sequence : sequence[k] \in DOMAIN rules

sequence_to_grammar_string(sequence, rules) == [k \in DOMAIN sequence |-> rules[sequence[k]]]

\* word[:-2]
DropLastTwo(word) == IF Len(word) <= 2 THEN <<>> ELSE SubSeq(word, 1, Len(word) - 2)

\* word = 'a' + word[:-2] + 'a'
BudgetAddition(word) == <<"a">> \o DropLastTwo(word) \o <<"a">>

\* word = 'a' + word + 'a'
SentenceAddition(word) == <<"a">> \o word \o <<"a">>

\* characters.find(stop_char), -1 when it is not found
Find(characters, c) ==
    IF \E i \in DOMAIN characters : characters[i] = c
    THEN (CHOOSE i \in DOMAIN characters :
             characters[i] = c /\ \A j \in 1..(i - 1) : characters[j] # c) - 1
    ELSE 0 - 1

\* one sentence of string_generation_markov_budget: words j..num_words-1
RECURSIVE BudgetSentence(_, _, _, _, _, _)
BudgetSentence(j, sentence, c, loc, py, np) ==
    IF j >= c.num_words
    THEN [string |-> sentence, py |-> py, np |-> np, raised |-> FALSE]
    ELSE LET seq == markov_sequence(loc.p_init, loc.p_transition, c.num_characters, 0 - 1, np)
         IN  IF seq.raised \/ ~HasRules(seq.states, loc.rules)
             THEN [string |-> sentence, py |-> py, np |-> seq.rng, raised |-> TRUE]
             ELSE LET word == sequence_to_grammar_string(seq.states, loc.rules)
                      word2 == IF DrawGreater(py, 50, 100) \/ j = c.num_words - 1
                               THEN BudgetAddition(word) ELSE word
                  IN  BudgetSentence(j + 1, sentence \o word2, c, loc, Advance(py), seq.rng)

\* one sentence of string_generation_markov_sentence: words j..num_words-1
RECURSIVE MarkovSentence(_, _, _, _, _)
MarkovSentence(j, sentence, c, loc, np) ==
    IF j >= c.num_words
    THEN [string |-> sentence, np |-> np, raised |-> FALSE]
    ELSE LET seq == markov_sequence(loc.p_init, loc.p_transition,
                                    c.num_characters_per_word, loc.stop_idx, np)
         IN  IF seq.raised \/ ~HasRules(seq.states, loc.rules)
             THEN [string |-> sentence, np |-> seq.rng, raised |-> TRUE]
             ELSE LET word == sequence_to_grammar_string(seq.states, loc.rules)
                  IN  IF word = <<>>
                      THEN MarkovSentence(j + 1, sentence, c, loc, seq.rng)
                      ELSE LET addition_word == DrawLess(seq.rng, c.p_word.n, c.p_word.d)
                               word2 == IF addition_word THEN SentenceAddition(word) ELSE word
                           IN  MarkovSentence(j + 1, sentence \o word2, c, loc, Advance(seq.rng))

(***************************************************************************)
(* The generators as lazy objects: one action is one next() on the         *)
(* generator.  The body runs from its start at the first next(), so the    *)
(* seeding and the other statements before the loop happen then.           *)
(***************************************************************************)
NewFrame == [started |-> FALSE, done |-> FALSE, raised |-> FALSE, i |-> 0, loc |-> <<>>]

Yielded(g, loc) == [g EXCEPT !.started = TRUE, !.i = @ + 1, !.loc = loc]
Returned(g, loc) == [g EXCEPT !.started = TRUE, !.done = TRUE, !.loc = loc]
Raised(g, loc) == [g EXCEPT !.started = TRUE, !.done = TRUE, !.raised = TRUE, !.loc = loc]

\* string_generation_brute(characters, length)
BruteNext ==
    /\ call.kind = "brute"
    /\ ~gen.done
    /\ LET letters == Product(call.characters, call.length)
       IN  IF gen.i < Len(letters)
           THEN /\ out' = Append(out, letters[gen.i + 1])
                /\ gen' = Yielded(gen, <<>>)
           ELSE /\ out' = out
                /\ gen' = Returned(gen, <<>>)
    /\ UNCHANGED <<call, py_rng, np_rng, run, out_first>>
    /\ UNCHANGED nonGenVars

\* string_generation_random(characters, number, length, ratios, seed)
RandomNext ==
    /\ call.kind = "random"
    /\ ~gen.done
    /\ \E entropy \in RngStates :
        LET ratios == EffectiveRatios(call.characters, call.ratios)
            s == IF gen.started THEN py_rng ELSE Reseed(call.seed, entropy)
            r == RandomString(call.characters, ratios, call.length, <<>>, s)
        IN  IF gen.i < call.number
            THEN /\ out' = Append(out, r.string)
                 /\ py_rng' = r.rng
                 /\ gen' = Yielded(gen, <<>>)
            ELSE /\ out' = out
                 /\ py_rng' = s
                 /\ gen' = Returned(gen, <<>>)
    /\ UNCHANGED <<call, np_rng, run, out_first>>
    /\ UNCHANGED nonGenVars

\* string_generation_structured(characters, number, length, seed)
StructuredNext ==
    /\ call.kind = "structured"
    /\ ~gen.done
    /\ \E entropy \in RngStates :
        LET s == IF gen.started THEN py_rng ELSE Reseed(call.seed, entropy)
            r == StructuredString(0, call.length, <<>>, 0, s)
        IN  IF gen.i < call.number
            THEN /\ out' = Append(out, r.string)
                 /\ py_rng' = r.rng
                 /\ gen' = Yielded(gen, <<>>)
            ELSE /\ out' = out
                 /\ py_rng' = s
                 /\ gen' = Returned(gen, <<>>)
    /\ UNCHANGED <<call, np_rng, run, out_first>>
    /\ UNCHANGED nonGenVars

\* the statements of a Markov generator before its loop
MarkovLocals(c) ==
    [rules |-> Rules(c.characters),
     p_init |-> MarkovPrologue(c.p_init, c.p_transition).p_init,
     p_transition |-> MarkovPrologue(c.p_init, c.p_transition).p_transition,
     stop_idx |-> IF c.kind = "markov_sentence" THEN Find(c.characters, c.stop_char) ELSE 0 - 1]

\* string_generation_markov(characters, number, length, p_init, p_transition, seed)
MarkovNext ==
    /\ call.kind = "markov"
    /\ ~gen.done
    /\ \E entropy \in RngStates :
        LET s == IF gen.started THEN np_rng ELSE Reseed(call.seed, entropy)
            loc == IF gen.started THEN gen.loc ELSE MarkovLocals(call)
            seq == markov_sequence(loc.p_init, loc.p_transition, call.length, 0 - 1, s)
        IN  IF gen.i >= call.number
            THEN /\ out' = out
                 /\ np_rng' = s
                 /\ gen' = Returned(gen, loc)
            ELSE IF seq.raised \/ ~HasRules(seq.states, loc.rules)
            THEN /\ out' = out
                 /\ np_rng' = seq.rng
                 /\ gen' = Raised(gen, loc)
            ELSE /\ out' = Append(out, sequence_to_grammar_string(seq.states, loc.rules))
                 /\ np_rng' = seq.rng
                 /\ gen' = Yielded(gen, loc)
    /\ UNCHANGED <<call, py_rng, run, out_first>>
    /\ UNCHANGED nonGenVars

\* string_generation_markov_budget(characters, num_sentences, num_words,
\*                                 num_characters, p_init, p_transition, seed)
BudgetNext ==
    /\ call.kind = "markov_budget"
    /\ ~gen.done
    /\ \E entropy \in RngStates :
        LET s == IF gen.started THEN np_rng ELSE Reseed(call.seed, entropy)
            loc == IF gen.started THEN gen.loc ELSE MarkovLocals(call)
            r == BudgetSentence(0, <<>>, call, loc, py_rng, s)
        IN  IF gen.i >= call.num_sentences
            THEN /\ out' = out
                 /\ np_rng' = s
                 /\ py_rng' = py_rng
                 /\ gen' = Returned(gen, loc)
            ELSE IF r.raised
            THEN /\ out' = out
                 /\ np_rng' = r.np
                 /\ py_rng' = r.py
                 /\ gen' = Raised(gen, loc)
            ELSE /\ out' = Append(out, r.string)
                 /\ np_rng' = r.np
                 /\ py_rng' = r.py
                 /\ gen' = Yielded(gen, loc)
    /\ UNCHANGED <<call, run, out_first>>
    /\ UNCHANGED nonGenVars

\* string_generation_markov_sentence(characters, num_sentences, num_words,
\*     num_characters_per_word, p_word, p_characters_init,
\*     p_characters_transition, stop_char, seed)
SentenceNext ==
    /\ call.kind = "markov_sentence"
    /\ ~gen.done
    /\ \E entropy \in RngStates :
        LET s == IF gen.started THEN np_rng ELSE Reseed(call.seed, entropy)
            loc == IF gen.started THEN gen.loc ELSE MarkovLocals(call)
            r == MarkovSentence(0, <<>>, call, loc, s)
        IN  IF loc.stop_idx < 0
            THEN /\ out' = out
                 /\ np_rng' = s
                 /\ gen' = Raised(gen, <<>>)
            ELSE IF gen.i >= call.num_sentences
            THEN /\ out' = out
                 /\ np_rng' = s
                 /\ gen' = Returned(gen, loc)
            ELSE IF r.raised
            THEN /\ out' = out
                 /\ np_rng' = r.np
                 /\ gen' = Raised(gen, loc)
            ELSE /\ out' = Append(out, r.string)
                 /\ np_rng' = r.np
                 /\ gen' = Yielded(gen, loc)
    /\ UNCHANGED <<call, py_rng, run, out_first>>
    /\ UNCHANGED nonGenVars

\* The same call is made again, to completion, in a process whose random
\* sources are in any state.
Rerun ==
    /\ run = 1
    /\ gen.done
    /\ run' = 2
    /\ out_first' = out
    /\ out' = <<>>
    /\ gen' = NewFrame
    /\ py_rng' \in RngStates
    /\ np_rng' \in RngStates
    /\ UNCHANGED call
    /\ UNCHANGED nonGenVars

(***************************************************************************)
(* The calls made                                                          *)
(***************************************************************************)
\* the alphabets of the script, and two that lack 'a' or hold another symbol
Alphabets == {<<"a", "t", "p">>, <<"t", "p">>}

\* every sequence of distinct symbols of 'atp'
RECURSIVE DistinctSeqs(_)
DistinctSeqs(S) ==
    {<<>>} \cup UNION {{<<x>> \o q : q \in DistinctSeqs(S \ {x})} : x \in S}

Seeds == 0..MaxSeed
SeedsOrNone == Seeds \cup {0 - 1}
Lengths == 0..MaxLength

\* random_string_ratios = [0.2, 0.5, 0.3]
ScriptRatios == [num |-> <<20, 50, 30>>, den |-> 100]

\* markov_budget_p_transition = [[0.6, 0.4], [0.4, 0.6]], and rows that sum to 0.6
Transitions2 == {[num |-> <<<<6, 4>>, <<4, 6>>>>, den |-> 10],
                 [num |-> <<<<2, 4>>, <<4, 2>>>>, den |-> 10]}

\* markov_budget_p_init = [0.45, 0.45, 0.0], or None
Inits2 == {NoVector, [num |-> <<45, 45, 0>>, den |-> 100]}

\* t, p and a stop state: [[0.5, 0.3, 0.2], [0.3, 0.5, 0.2]] and a row for the stop state
Transition3 == [num |-> <<<<5, 3, 2>>, <<3, 5, 2>>, <<1, 1, 1>>>>, den |-> 10]
Init3 == [num |-> <<45, 45, 10>>, den |-> 100]

BruteCalls(alphabets) ==
    {[kind |-> "brute", characters |-> cs, length |-> n] :
        cs \in alphabets, n \in Lengths}

RandomCalls(seeds) ==
    {[kind |-> "random", characters |-> cs, number |-> NumStrings, length |-> n,
      ratios |-> rs, seed |-> sd] :
        cs \in Alphabets, n \in Lengths, rs \in {NoRatios, ScriptRatios}, sd \in seeds}

StructuredCalls(seeds) ==
    {[kind |-> "structured", characters |-> cs, number |-> NumStrings, length |-> n,
      seed |-> sd] :
        cs \in Alphabets, n \in Lengths, sd \in seeds}

MarkovCalls(seeds) ==
    {[kind |-> "markov", characters |-> <<"t", "p">>, number |-> NumStrings, length |-> n,
      p_init |-> pi, p_transition |-> pt, seed |-> sd] :
        n \in Lengths, pi \in Inits2, pt \in Transitions2, sd \in seeds}

BudgetCalls(seeds) ==
    {[kind |-> "markov_budget", characters |-> <<"t", "p">>, num_sentences |-> NumStrings,
      num_words |-> w, num_characters |-> n,
      p_init |-> pi, p_transition |-> pt, seed |-> sd] :
        w \in 0..MaxWords, n \in Lengths, pi \in Inits2, pt \in Transitions2, sd \in seeds}

SentenceCalls(seeds) ==
    {[kind |-> "markov_sentence", characters |-> <<"t", "p", "s">>,
      num_sentences |-> NumStrings, num_words |-> w, num_characters_per_word |-> n,
      p_word |-> [n |-> 1, d |-> 2], p_init |-> Init3, p_transition |-> Transition3,
      stop_char |-> sc, seed |-> sd] :
        w \in 0..MaxWords, n \in Lengths, sc \in {"s", "None"}, sd \in seeds}

InitGenerator(calls) ==
    /\ call \in calls
    /\ gen = NewFrame
    /\ out = <<>>
    /\ py_rng \in RngStates
    /\ np_rng \in RngStates
    /\ run = 1
    /\ out_first = <<>>

IdleOthers == IdlePipeline /\ IdleHistogram /\ IdleKey /\ IdleEquilibrium

\* every generator, one call consumed to completion
InitGenerators ==
    /\ IdleOthers
    /\ InitGenerator(BruteCalls(Alphabets) \cup RandomCalls(SeedsOrNone)
                        \cup StructuredCalls(SeedsOrNone) \cup MarkovCalls(SeedsOrNone)
                        \cup BudgetCalls(SeedsOrNone) \cup SentenceCalls(SeedsOrNone))

NextGenerators ==
    BruteNext \/ RandomNext \/ StructuredNext \/ MarkovNext \/ BudgetNext \/ SentenceNext

SpecGenerators == InitGenerators /\ [][NextGenerators]_vars

\* the exhaustive generator over every alphabet of distinct symbols
InitBrute ==
    /\ IdleOthers
    /\ InitGenerator(BruteCalls(DistinctSeqs({"a", "t", "p"})))
    /\ py_rng = 0
    /\ np_rng = 0

SpecBrute == InitBrute /\ [][BruteNext]_vars

\* a seeded randomized generator consumed to completion, twice
InitDeterminism ==
    /\ IdleOthers
    /\ InitGenerator(RandomCalls(Seeds) \cup StructuredCalls(Seeds) \cup MarkovCalls(Seeds)
                        \cup BudgetCalls(Seeds) \cup SentenceCalls(Seeds))

NextDeterminism ==
    RandomNext \/ StructuredNext \/ MarkovNext \/ BudgetNext \/ SentenceNext \/ Rerun

SpecDeterminism == InitDeterminism /\ [][NextDeterminism]_vars

\* string_generation_random with a vector of positive weights, one for each
\* symbol, in units of 1 / (MaxWeight + 1): vectors that sum to less than 1,
\* to 1 and to more than 1
WeightVectors(n) == {[num |-> w, den |-> MaxWeight + 1] : w \in [1..n -> 1..MaxWeight]}

WeightedCalls ==
    {[kind |-> "random", characters |-> cs, number |-> k, length |-> n,
      ratios |-> rs, seed |-> sd] :
        cs \in Alphabets, k \in 0..NumStrings, n \in Lengths,
        rs \in WeightVectors(2) \cup WeightVectors(3), sd \in SeedsOrNone}

InitRandom ==
    /\ IdleOthers
    /\ InitGenerator({c \in WeightedCalls : Len(c.ratios.num) = Len(c.characters)})
    /\ np_rng = 0

SpecRandom == InitRandom /\ [][RandomNext]_vars

\* string_generation_structured over 'atp' for the lengths 1..MaxLength + 2
StructuredLengths == 1..(MaxLength + 2)

InitStructured ==
    /\ IdleOthers
    /\ InitGenerator({[kind |-> "structured", characters |-> <<"a", "t", "p">>,
                       number |-> NumStrings, length |-> n, seed |-> sd] :
                          n \in StructuredLengths, sd \in SeedsOrNone})
    /\ np_rng = 0

SpecStructured == InitStructured /\ [][StructuredNext]_vars

\* markov_sequence(p_init, p_transition, sequence_length, stop_state) called
\* the way the sentence generator calls it, on normalized probabilities of
\* three states, with each state or None as stop_state
SequenceCalls ==
    {[kind |-> "markov_sequence",
      p_init |-> MarkovPrologue(Init3, Transition3).p_init,
      p_transition |-> MarkovPrologue(Init3, Transition3).p_transition,
      sequence_length |-> n, stop_state |-> st] :
        n \in 0..(MaxLength + 1), st \in (0 - 1)..2}

InitSequence ==
    /\ IdleOthers
    /\ InitGenerator(SequenceCalls)
    /\ py_rng = 0

\* One call of markov_sequence; the state of the random source at the call is
\* kept with the frame.
MarkovSequenceCall ==
    /\ call.kind = "markov_sequence"
    /\ ~gen.done
    /\ LET seq == markov_sequence(call.p_init, call.p_transition,
                                  call.sequence_length, call.stop_state, np_rng)
       IN  /\ out' = IF seq.raised THEN out ELSE Append(out, seq.states)
           /\ np_rng' = seq.rng
           /\ gen' = IF seq.raised THEN Raised(gen, [rng |-> np_rng])
                      ELSE Returned(gen, [rng |-> np_rng])
    /\ UNCHANGED <<call, py_rng, run, out_first>>
    /\ UNCHANGED nonGenVars

SpecSequence == InitSequence /\ [][MarkovSequenceCall]_vars

\* Two seeded generators of one process: `call`, `gen` and `out` hold a pair,
\* one entry for each generator; the random source is the process's.
PairedCalls ==
    LET seeded == {c \in RandomCalls(Seeds) \cup StructuredCalls(Seeds) :
                      c.characters = <<"a", "t", "p">>}
    IN  {[kind |-> "pair", calls |-> <<c1, c2>>] : c1 \in seeded, c2 \in seeded}

InitInterleaved ==
    /\ IdleOthers
    /\ call \in PairedCalls
    /\ gen = <<NewFrame, NewFrame>>
    /\ out = <<<<>>, <<>>>>
    /\ py_rng \in RngStates
    /\ np_rng = 0
    /\ run = 1
    /\ out_first = <<>>

\* the string one iteration of generator c builds from random state s
OneString(c, s) ==
    IF c.kind = "random"
    THEN RandomString(c.characters, EffectiveRatios(c.characters, c.ratios), c.length, <<>>, s)
    ELSE StructuredString(0, c.length, <<>>, 0, s)

\* next() on generator g of the pair: string_generation_random or
\* string_generation_structured, seeding the process's source when its body
\* starts
InterleavedNext(g) ==
    /\ call.kind = "pair"
    /\ ~gen[g].done
    /\ LET c == call.calls[g]
           s == IF gen[g].started THEN py_rng ELSE SeedState(c.seed)
           r == OneString(c, s)
       IN  IF gen[g].i < c.number
           THEN /\ out' = [out EXCEPT ![g] = Append(@, r.string)]
                /\ py_rng' = r.rng
                /\ gen' = [gen EXCEPT ![g] = Yielded(@, <<>>)]
           ELSE /\ out' = out
                /\ py_rng' = s
                /\ gen' = [gen EXCEPT ![g] = Returned(@, <<>>)]
    /\ UNCHANGED <<call, np_rng, run, out_first>>
    /\ UNCHANGED nonGenVars

FirstNext == InterleavedNext(1)

SecondNext == InterleavedNext(2)

NextInterleaved == FirstNext \/ SecondNext

SpecInterleaved == InitInterleaved /\ [][NextInterleaved]_vars

(***************************************************************************)
(* Claims about the generators                                             *)
(***************************************************************************)
\* the symbols a generator may emit: those of `characters`; 'a', 't' and 'p'
\* for the structured generator; 'a' besides for the two sentence builders
AllowedSymbols(c) ==
    IF c.kind = "structured" THEN {"a", "t", "p"}
    ELSE IF c.kind \in {"markov_budget", "markov_sentence"}
    THEN Range(c.characters) \cup {"a"}
    ELSE Range(c.characters)

\* C4: every symbol of every string a generator yields is a member of the
\* alphabet `characters` it was called with.
C4_AlphabetClosure ==
    \A k \in DOMAIN out : Range(out[k]) \subseteq Range(call.characters)

\* C4, as the code has it: the exhaustive, random and Markov generators emit
\* symbols of `characters` only; the structured generator emits 'a', 't' and
\* 'p' whatever `characters` is; the budgeted and the sentence generator emit
\* symbols of `characters` and the marker 'a'.
C4_SymbolsAllowed ==
    \A k \in DOMAIN out : Range(out[k]) \subseteq AllowedSymbols(call)

\* the budgeted generator called with alphabet 'tp' has finished and has
\* yielded a sentence that holds the marker 'a' next to symbols of 'tp'
C4_Witness ==
    /\ call.kind = "markov_budget"
    /\ gen.done /\ ~gen.raised
    /\ "a" \notin Range(call.characters)
    /\ \E k \in DOMAIN out : {"a", "t"} \subseteq Range(out[k])

\* C5: a seeded randomized generator consumed to completion yields the same
\* strings in two runs, whatever the state of the random sources before.
C5_Determinism ==
    (run = 2 /\ gen.done) => out = out_first

RECURSIVE Pow(_, _)
Pow(b, e) == IF e = 0 THEN 1 ELSE b * Pow(b, e - 1)

IndexOf(characters, c) == CHOOSE i \in DOMAIN characters : characters[i] = c

\* u comes before v in the lexicographic order of the alphabet's symbol order
LexLess(u, v, characters) ==
    \E i \in DOMAIN u :
        /\ i \in DOMAIN v
        /\ \A j \in 1..(i - 1) : u[j] = v[j]
        /\ IndexOf(characters, u[i]) < IndexOf(characters, v[i])

\* C6: string_generation_brute yields |alphabet|^length strings of that
\* length, in strictly increasing lexicographic order (so pairwise distinct),
\* and they are all the strings of that length over the alphabet.
C6_BruteEnumeration ==
    (call.kind = "brute" /\ gen.done) =>
        /\ Len(out) = Pow(Len(call.characters), call.length)
        /\ \A k \in DOMAIN out : Len(out[k]) = call.length
        /\ \A k \in 1..(Len(out) - 1) : LexLess(out[k], out[k + 1], call.characters)
        /\ Range(out) = [1..call.length -> Range(call.characters)]

\* alphabet 'atp', length 2: aa, at, ap, ta, tt, tp, pa, pt, pp
C6_Witness ==
    /\ call.kind = "brute"
    /\ gen.done
    /\ call.characters = <<"a", "t", "p">>
    /\ out = << <<"a", "a">>, <<"a", "t">>, <<"a", "p">>,
                <<"t", "a">>, <<"t", "t">>, <<"t", "p">>,
                <<"p", "a">>, <<"p", "t">>, <<"p", "p">> >>

\* the draw a seeded call makes for symbol j of its string k
DrawOf(c, k, j) == (SeedState(c.seed) + (k - 1) * c.length + (j - 1)) % RngMod

\* the smallest i with x < ratios[0] + ... + ratios[i], 1-based
CumulativeIndex(ratios, x) ==
    CHOOSE i \in DOMAIN ratios.num :
        /\ DrawLess(x, Cum(ratios.num, i), ratios.den)
        /\ \A j \in 1..(i - 1) : ~DrawLess(x, Cum(ratios.num, j), ratios.den)

\* C12: for positive weights, summing to 1 or not, string_generation_random
\* yields `number` strings of `length` symbols each, the symbol of a draw x
\* being characters[i] for the smallest i with x < ratios[0] + ... + ratios[i].
C12_RandomCountLength ==
    (call.kind = "random" /\ gen.done) =>
        /\ Len(out) = call.number
        /\ \A k \in DOMAIN out :
              /\ Len(out[k]) = call.length
              /\ ~IsNone(call.seed) =>
                    \A j \in DOMAIN out[k] :
                        out[k][j] = call.characters[
                            CumulativeIndex(call.ratios, DrawOf(call, k, j))]

\* the number of times symbol c occurs in a string
CountOf(string, c) == Cardinality({i \in DOMAIN string : string[i] = c})

\* C13: every string string_generation_structured yields ends with no run
\* open: every 'a' that opens a run is followed by an 'a' that closes it, so
\* the number of 'a' in the string is even.
C13_RunsClosed ==
    call.kind = "structured" =>
        \A k \in DOMAIN out : CountOf(out[k], "a") % 2 = 0

\* Reading a string from symbol i on, `open` telling whether a run is open
\* ("no") and whether it has a 't' yet ("empty", "filled"): TRUE when some
\* 'a' closes a run that has no 't'.
RECURSIVE ClosesEmptyRun(_, _, _)
ClosesEmptyRun(string, i, open) ==
    IF i > Len(string) THEN FALSE
    ELSE IF string[i] = "a"
    THEN IF open = "no" THEN ClosesEmptyRun(string, i + 1, "empty")
         ELSE IF open = "empty" THEN TRUE
         ELSE ClosesEmptyRun(string, i + 1, "no")
    ELSE IF string[i] = "t" /\ open # "no"
    THEN ClosesEmptyRun(string, i + 1, "filled")
    ELSE ClosesEmptyRun(string, i + 1, open)

\* C14: in every string string_generation_structured yields there is a 't'
\* between an 'a' that opens a run and the 'a' that closes it, the forced
\* close at the final position included.
C14_NoDegenerateRun ==
    call.kind = "structured" =>
        \A k \in DOMAIN out : ~ClosesEmptyRun(out[k], 1, "no")

\* the chain sampled from random state s when nothing stops it
SampledChain(c, s) ==
    markov_sequence(c.p_init, c.p_transition, c.sequence_length, 0 - 1, s).states

\* the states of a chain before the first one equal to stop_state
BeforeStop(chain, stop_state) ==
    LET stops == {i \in DOMAIN chain : chain[i] = stop_state}
    IN  IF stops = {} THEN chain
        ELSE SubSeq(chain, 1, (CHOOSE i \in stops : \A j \in stops : i <= j) - 1)

\* C15: markov_sequence returns the sampled chain cut just before the first
\* draw of stop_state: stop_state is not in the list, nothing drawn after it
\* is, and the list has at most sequence_length states, exactly that many when
\* stop_state is None or never drawn.
C15_SequenceTruncated ==
    (call.kind = "markov_sequence" /\ gen.done /\ ~gen.raised) =>
        LET chain == SampledChain(call, gen.loc.rng)
            states == out[1]
        IN  /\ call.stop_state \notin Range(states)
            /\ states = BeforeStop(chain, call.stop_state)
            /\ Len(states) <= call.sequence_length
            /\ call.stop_state \notin Range(chain) => Len(states) = call.sequence_length

\* the strings generator c yields from its k-th on when it is consumed alone,
\* s being the state of the random source before the k-th
RECURSIVE AloneFrom(_, _, _)
AloneFrom(c, k, s) ==
    IF k > c.number THEN <<>>
    ELSE <<OneString(c, s).string>> \o AloneFrom(c, k + 1, OneString(c, s).rng)

\* the strings a seeded generator yields when it is consumed alone
Alone(c) == AloneFrom(c, 1, SeedState(c.seed))

\* C16: whatever the order of the next() calls on two seeded generators, each
\* one yields the strings it yields when it is consumed alone to completion.
C16_InterleavingIndependent ==
    call.kind = "pair" =>
        \A g \in 1..2 : gen[g].done => out[g] = Alone(call.calls[g])

====
